---- MODULE Spec2Model ----
(***************************************************************************)
(* LR_from_scratch.ipynb as a state machine: one Jupyter kernel session    *)
(* whose namespace is the state and whose code cells are the actions.      *)
(*                                                                         *)
(* float32 tensors are held in fixed point, one unit per Python name:      *)
(*   inputs, values                      multiples of 1/XScale             *)
(*   w, b, linear.weight, linear.bias    multiples of 1/ParamScale         *)
(*   preds, outputs, targets, labels     multiples of 1/PredScale          *)
(*   .grad of a parameter                multiples of 1/GradScale          *)
(*   loss                                base-Base limbs, most significant *)
(*                                       first, of a multiple of           *)
(*                                       1/(PredScale*PredScale*Base)      *)
(* Products are formed exactly; a result is rounded to nearest where it is *)
(* stored in a coarser unit, as a float operation rounds its result.       *)
(* The scalar tensors of the first cells hold small whole numbers and are  *)
(* kept as plain integers.                                                 *)
(***************************************************************************)
EXTENDS Integers, Sequences, FiniteSets

VARIABLES cell, raised, x, w, b, y, inputs, targets, preds, loss, i,
          device, model_def, linear, values, labels, outputs, epoch

vars == <<cell, raised, x, w, b, y, inputs, targets, preds, loss, i,
          device, model_def, linear, values, labels, outputs, epoch>>

(***************************************************************************)
(* Fixed-point units                                                       *)
(***************************************************************************)
XScale == 10
ParamScale == 1000000
PredScale == XScale * ParamScale
GradScale == 1000
Base == 1000

\* a / c rounded to nearest (c > 0)
RoundDiv(a, c) == (a + (c \div 2)) \div c

\* a * n / c rounded to nearest, without forming a * n (c * |n| < 2^31)
MulDivR(a, n, c) == ((a \div c) * n) + RoundDiv((a % c) * n, c)

(***************************************************************************)
(* Tensors                                                                 *)
(***************************************************************************)
None == [kind |-> "None"]

\* torch.tensor(v, requires_grad=rg): a leaf with no gradient yet
Tensor(v, rg) == [kind |-> "Tensor", data |-> v, requires_grad |-> rg,
                  has_grad |-> FALSE, grad |-> <<>>]

\* a sequence given by a rule, held element by element
Tuple(s) == s \o <<>>

Rows(m) == Len(m)
Cols(m) == Len(m[1])

RECURSIVE SumTo(_, _)
SumTo(s, n) == IF n = 0 THEN 0 ELSE s[n] + SumTo(s, n - 1)

SumSeq(s) == SumTo(s, Len(s))

\* Tensor.t()
Transpose(m) == Tuple([c \in 1..Cols(m) |-> Tuple([r \in 1..Rows(m) |-> m[r][c]])])

\* the @ operator
MatMul(p, q) ==
    Tuple([r \in 1..Rows(p) |->
        Tuple([c \in 1..Cols(q) |->
            SumSeq(Tuple([k \in 1..Cols(p) |-> p[r][k] * q[k][c]]))])])

\* m + v with v broadcast over the rows of m
AddRow(m, v) ==
    Tuple([r \in 1..Rows(m) |-> Tuple([c \in 1..Cols(m) |-> m[r][c] + v[c]])])

Sub(p, q) ==
    Tuple([r \in 1..Rows(p) |-> Tuple([c \in 1..Cols(p) |-> p[r][c] - q[r][c]])])

\* Tensor.numel()
Numel(m) == Rows(m) * Cols(m)

Flatten(m) ==
    LET nc == Cols(m)
    IN  Tuple([n \in 1..(Rows(m) * nc) |-> m[((n - 1) \div nc) + 1][((n - 1) % nc) + 1]])

(***************************************************************************)
(* Wide non-negative numbers: sequences of base-Base limbs, least          *)
(* significant first while they are computed.                              *)
(***************************************************************************)
NumLimbs == 8

Abs(a) == IF a < 0 THEN 0 - a ELSE a

\* d * d from the four limbs of |d| (|d| < 2^31 < Base^4), each limb of the
\* product left uncarried, the whole shifted up by the one limb the
\* division below consumes
SquareLimbs(d) ==
    LET a  == Abs(d)
        d0 == a % Base
        d1 == (a \div Base) % Base
        d2 == (a \div (Base * Base)) % Base
        d3 == a \div (Base * Base * Base)
    IN  <<0, d0 * d0, 2 * d0 * d1, (2 * d0 * d2) + (d1 * d1),
          2 * ((d0 * d3) + (d1 * d2)), (2 * d1 * d3) + (d2 * d2),
          2 * d2 * d3, d3 * d3>>

RECURSIVE CarryFrom(_, _, _)
CarryFrom(s, n, c) ==
    IF n > Len(s) THEN <<>>
    ELSE LET t == s[n] + c
         IN  <<t % Base>> \o CarryFrom(s, n + 1, t \div Base)

\* torch.sum(diff * diff) over the flattened tensor: the uncarried limbs
\* are added position by position (at most Base squares), then carried
SumSquares(s) ==
    LET sq == Tuple([n \in 1..Len(s) |-> SquareLimbs(s[n])])
    IN  CarryFrom(Tuple([k \in 1..NumLimbs |->
                            SumSeq(Tuple([n \in 1..Len(s) |-> sq[n][k]]))]), 1, 0)

\* limbs / n by long division from the top limb (n <= Base); the result is
\* most significant limb first
RECURSIVE DivFrom(_, _, _, _)
DivFrom(s, k, r, n) ==
    IF k = 0 THEN <<>>
    ELSE LET t == (r * Base) + s[k]
         IN  <<t \div n>> \o DivFrom(s, k - 1, t % n, n)

DivLimbs(s, n) == DivFrom(s, Len(s), 0, n)

\* comparison of two results of DivLimbs
RECURSIVE LessFrom(_, _, _)
LessFrom(p, q, k) ==
    IF k > Len(p) THEN FALSE
    ELSE IF p[k] # q[k] THEN p[k] < q[k]
    ELSE LessFrom(p, q, k + 1)

Less(p, q) == LessFrom(p, q, 1)
Leq(p, q) == ~Less(q, p)

(***************************************************************************)
(* The notebook's two functions                                            *)
(***************************************************************************)
\* mse dividing by len(diff), the number of rows, instead of diff.numel()
mse_len(t1, t2) ==
    LET diff == Sub(t1, t2)
    IN  DivLimbs(SumSquares(Flatten(diff)), Rows(diff))

\* def mse(t1, t2): diff = t1 - t2; return torch.sum(diff * diff) / diff.numel()
mse(t1, t2) ==
    LET diff == Sub(t1, t2)
    IN  DivLimbs(SumSquares(Flatten(diff)), Numel(diff))

\* x @ w.t() + b, for a weight and a bias given as values
Linear(xs, weight, bias) ==
    AddRow(MatMul(xs, Transpose(weight)), Tuple([c \in 1..Len(bias) |-> XScale * bias[c]]))

\* model without the bias term
model_nobias(xs) == MatMul(xs, Transpose(w.data))

\* def model(x): return x @ w.t() + b  -- w and b are the globals at the call
model(xs) == Linear(xs, w.data, b.data)

(***************************************************************************)
(* Autograd                                                                *)
(***************************************************************************)
AddS(p, q) == p + q
AddV(p, q) == Tuple([c \in 1..Len(p) |-> p[c] + q[c]])
AddM(p, q) == Tuple([r \in 1..Rows(p) |-> AddV(p[r], q[r])])
\* p + q for tensors of ndim dimensions
Add(p, q, ndim) ==
    IF ndim = 0 THEN AddS(p, q) ELSE IF ndim = 1 THEN AddV(p, q) ELSE AddM(p, q)

\* backward() reaching a leaf: the gradient is stored in .grad the first
\* time and added to it afterwards; a leaf created without requires_grad
\* gets none
Accumulate(t, g, ndim) ==
    IF ~t.requires_grad THEN t
    ELSE [t EXCEPT !.has_grad = TRUE,
                   !.grad = IF t.has_grad THEN Add(t.grad, g, ndim) ELSE g]

\* the common denominator of d loss / d parameter for a mean over n elements
\* (2 / n) * diff * input, taken from PredScale * XScale units to GradScale
GradDen(n) == (n \div 2) * XScale * (PredScale \div GradScale)

\* d loss / d weight = (2 / numel) * diff^T @ xs
LossGradWeight(diff, xs) ==
    LET den == GradDen(Numel(diff))
    IN  Tuple([j \in 1..Cols(diff) |->
            Tuple([k \in 1..Cols(xs) |->
                SumSeq(Tuple([r \in 1..Rows(diff) |->
                           MulDivR(diff[r][j], xs[r][k], den)]))])])

\* d loss / d bias = (2 / numel) * column sums of diff
LossGradBias(diff) ==
    LET den == GradDen(Numel(diff))
    IN  Tuple([j \in 1..Cols(diff) |->
            SumSeq(Tuple([r \in 1..Rows(diff) |-> MulDivR(diff[r][j], XScale, den)]))])

\* a step up the gradient instead of down
StepS_ascent(p, g, lr) == p + MulDivR(g, lr.num * (ParamScale \div GradScale), lr.den)

\* p - g * lr, the step being rounded to the parameter's unit
StepS(p, g, lr) == p - MulDivR(g, lr.num * (ParamScale \div GradScale), lr.den)
StepV(p, g, lr) == Tuple([c \in 1..Len(p) |-> StepS(p[c], g[c], lr)])
StepM(p, g, lr) == Tuple([r \in 1..Rows(p) |-> StepV(p[r], g[r], lr)])

ZerosV(p) == Tuple([c \in 1..Len(p) |-> 0])
ZerosM(p) == Tuple([r \in 1..Rows(p) |-> ZerosV(p[r])])

(***************************************************************************)
(* Literals of the notebook                                                *)
(***************************************************************************)
\* np.array([[12, 4.5, 32], ...], dtype='float32'), in tenths
InputData ==
    << <<120, 45, 320>>, <<150, 42, 400>>, <<180, 42, 450>>, <<240, 40, 510>>,
       <<300, 38, 580>>, <<180, 38, 650>>, <<150, 40, 700>>, <<150, 41, 780>>,
       <<180, 39, 810>>, <<240, 40, 900>> >>

\* np.array([[70, 70], ...], dtype='float32'), in whole units
TargetData ==
    << <<70, 70>>, <<72, 75>>, <<80, 70>>, <<85, 75>>, <<85, 80>>,
       <<82, 85>>, <<90, 85>>, <<87, 90>>, <<85, 90>>, <<90, 95>> >>

ScaleM(m, k) ==
    Tuple([r \in 1..Rows(m) |-> Tuple([c \in 1..Cols(m) |-> m[r][c] * k])])

\* the step size 1e-5 of the hand-written loops
ManualLr == [num |-> 1, den |-> 100000]

\* range(100000)
ManualEpochs == 100000

\* the step size 1e-5 of the device cell's loop, and its range(100)
DeviceLr == [num |-> 1, den |-> 100000]
DeviceEpochs == 100

\* learning_rate = 0.0001; epochs = 10000
learning_rate == [num |-> 1, den |-> 10000]
epochs == 10000

\* values torch.randn(2, 3) and torch.randn(2) may return, the first of
\* each being the draw the notebook recorded
RandnW ==
    << << <<554300, -656000, 1498100>>, <<12300, 1595300, -606900>> >>,
       << <<-310000, 1200000, 250000>>, <<870000, -440000, 90000>> >>,
       << <<0, 0, 0>>, <<1000000, -1000000, 1000000>> >> >>

RandnB == << <<-913900, 719800>>, <<350000, -1250000>> >>

\* values nn.Linear(3, 2) may start from: uniform in +-1/sqrt(3)
LinearW ==
    << << <<-401200, 163500, 521000>>, <<77700, -250100, -569900>> >>,
       << <<333300, -12500, -98700>>, <<-577000, 440000, 201000>> >> >>

LinearB == << <<120300, -345600>>, <<-500000, 60000>> >>

\* how many of the draws above the shortened session explores, and after how
\* many passes it leaves a training loop
MaxDraws == 2
MaxEpochs == 3

Min(p, q) == IF p < q THEN p ELSE q

Draws(s, n) == {s[k] : k \in 1..Min(n, Len(s))}

(***************************************************************************)
(* The session                                                             *)
(***************************************************************************)
Init ==
    /\ cell = "create"
    /\ raised = "none"
    /\ x = None /\ w = None /\ b = None /\ y = None
    /\ inputs = None /\ targets = None /\ preds = None /\ loss = None
    /\ i = -1
    /\ device = "unset"
    /\ model_def = "undefined"
    /\ linear = None /\ values = None /\ labels = None /\ outputs = None
    /\ epoch = 0

\* x = torch.tensor(1., requires_grad=True); w = torch.tensor(2., requires_grad=True)
\* b = torch.tensor(3.)
Create ==
    /\ cell = "create"
    /\ x' = Tensor(1, TRUE)
    /\ w' = Tensor(2, TRUE)
    /\ b' = Tensor(3, FALSE)
    /\ cell' = "arith"
    /\ UNCHANGED <<raised, y, inputs, targets, preds, loss, i, device, model_def,
                   linear, values, labels, outputs, epoch>>

\* y = w * x + b
Arith ==
    /\ cell = "arith"
    /\ y' = [kind |-> "Tensor", data |-> (w.data * x.data) + b.data,
             requires_grad |-> (w.requires_grad \/ x.requires_grad \/ b.requires_grad),
             saved |-> [w |-> w.data, x |-> x.data]]
    /\ cell' = "backward"
    /\ UNCHANGED <<raised, x, w, b, inputs, targets, preds, loss, i, device,
                   model_def, linear, values, labels, outputs, epoch>>

\* backward() handing each factor its own value instead of the other's
Backward_swapped ==
    /\ cell = "backward"
    /\ x' = Accumulate(x, y.saved.x, 0)
    /\ w' = Accumulate(w, y.saved.w, 0)
    /\ b' = Accumulate(b, 1, 0)
    /\ cell' = "data"
    /\ UNCHANGED <<raised, y, inputs, targets, preds, loss, i, device, model_def,
                   linear, values, labels, outputs, epoch>>

\* y.backward(): dy/dx = w, dy/dw = x, dy/db = 1
Backward ==
    /\ cell = "backward"
    /\ IF y.requires_grad
       THEN /\ x' = Accumulate(x, y.saved.w, 0)
            /\ w' = Accumulate(w, y.saved.x, 0)
            /\ b' = Accumulate(b, 1, 0)
            /\ UNCHANGED raised
       ELSE /\ raised' = "RuntimeError"
            /\ UNCHANGED <<x, w, b>>
    /\ cell' = "data"
    /\ UNCHANGED <<y, inputs, targets, preds, loss, i, device, model_def,
                   linear, values, labels, outputs, epoch>>

\* inputs = np.array(...); targets = np.array(...)
Data ==
    /\ cell = "data"
    /\ inputs' = [kind |-> "ndarray", data |-> InputData, device |-> "cpu"]
    /\ targets' = [kind |-> "ndarray", data |-> ScaleM(TargetData, PredScale),
                   device |-> "cpu"]
    /\ cell' = "convert"
    /\ UNCHANGED <<raised, x, w, b, y, preds, loss, i, device, model_def,
                   linear, values, labels, outputs, epoch>>

\* torch.from_numpy(a) accepts a numpy array and nothing else
IsNdarray(a) == a.kind = "ndarray"
from_numpy(a) == [a EXCEPT !.kind = "Tensor"]

\* Tensor.to(device)
to(t, d) == [t EXCEPT !.device = d]

\* inputs = torch.from_numpy(inputs); targets = torch.from_numpy(targets)
Convert ==
    /\ cell = "convert"
    /\ IF ~IsNdarray(inputs)
       THEN raised' = "TypeError" /\ UNCHANGED <<inputs, targets>>
       ELSE /\ inputs' = from_numpy(inputs)
            /\ IF ~IsNdarray(targets)
               THEN raised' = "TypeError" /\ UNCHANGED targets
               ELSE targets' = from_numpy(targets) /\ UNCHANGED raised
    /\ cell' = "params"
    /\ UNCHANGED <<x, w, b, y, preds, loss, i, device, model_def,
                   linear, values, labels, outputs, epoch>>

\* w = torch.randn(2, 3, requires_grad=True); b = torch.randn(2, requires_grad=True)
Params(ws, bs) ==
    /\ cell = "params"
    /\ \E wd \in ws : w' = Tensor(wd, TRUE)
    /\ \E bd \in bs : b' = Tensor(bd, TRUE)
    /\ cell' = "defmodel"
    /\ UNCHANGED <<raised, x, y, inputs, targets, preds, loss, i, device,
                   model_def, linear, values, labels, outputs, epoch>>

\* def model(x): ...
DefModel ==
    /\ cell = "defmodel"
    /\ model_def' = "function"
    /\ cell' = "predict"
    /\ UNCHANGED <<raised, x, w, b, y, inputs, targets, preds, loss, i, device,
                   linear, values, labels, outputs, epoch>>

\* preds = model(inputs)
Predict ==
    /\ cell = "predict"
    /\ preds' = [kind |-> "Tensor", data |-> model(inputs.data)]
    /\ cell' = "loss"
    /\ UNCHANGED <<raised, x, w, b, y, inputs, targets, loss, i, device,
                   model_def, linear, values, labels, outputs, epoch>>

\* the value of mse(p, t) with the difference autograd keeps for backward()
LossOf(p, t) == [kind |-> "Tensor", data |-> mse(p, t), diff |-> Sub(p, t)]

\* loss = mse(preds, targets)
ComputeLoss ==
    /\ cell = "loss"
    /\ loss' = LossOf(preds.data, targets.data)
    /\ cell' = "grads"
    /\ UNCHANGED <<raised, x, w, b, y, inputs, targets, preds, i, device,
                   model_def, linear, values, labels, outputs, epoch>>

\* loss.backward() for loss = mse(xs @ weight.t() + bias, t)
BackwardW(weight, l, xs) == Accumulate(weight, LossGradWeight(l.diff, xs), 2)
BackwardB(bias, l) == Accumulate(bias, LossGradBias(l.diff), 1)

\* loss.backward()
Grads ==
    /\ cell = "grads"
    /\ w' = BackwardW(w, loss, inputs.data)
    /\ b' = BackwardB(b, loss)
    /\ cell' = "train"
    /\ UNCHANGED <<raised, x, y, inputs, targets, preds, loss, i, device,
                   model_def, linear, values, labels, outputs, epoch>>

\* with torch.no_grad(): p -= p.grad * lr; p.grad.zero_()
UpdateW(t, lr) == [t EXCEPT !.data = StepM(t.data, t.grad, lr), !.grad = ZerosM(t.grad)]
UpdateB(t, lr) == [t EXCEPT !.data = StepV(t.data, t.grad, lr), !.grad = ZerosV(t.grad)]

\* one pass of the body of: for i in range(100000)
TrainIter(n) ==
    /\ cell = "train"
    /\ i + 1 < n
    /\ i' = i + 1
    /\ preds' = [kind |-> "Tensor", data |-> model(inputs.data)]
    /\ loss' = LossOf(preds'.data, targets.data)
    /\ \E t \in {BackwardW(w, loss', inputs.data)} : w' = UpdateW(t, ManualLr)
    /\ \E t \in {BackwardB(b, loss')} : b' = UpdateB(t, ManualLr)
    /\ UNCHANGED <<cell, raised, x, y, inputs, targets, device, model_def,
                   linear, values, labels, outputs, epoch>>

\* range(100000) is exhausted
TrainDone(n) ==
    /\ cell = "train"
    /\ i + 1 >= n
    /\ cell' = "final"
    /\ UNCHANGED <<raised, x, w, b, y, inputs, targets, preds, loss, i, device,
                   model_def, linear, values, labels, outputs, epoch>>

\* preds = model(inputs); loss = mse(preds, targets)
Final ==
    /\ cell = "final"
    /\ preds' = [kind |-> "Tensor", data |-> model(inputs.data)]
    /\ loss' = LossOf(preds'.data, targets.data)
    /\ cell' = "device"
    /\ UNCHANGED <<raised, x, w, b, y, inputs, targets, i, device, model_def,
                   linear, values, labels, outputs, epoch>>

\* the body of a hand-written training loop, run n more times on the
\* parameters wt, bt; the result is the namespace the loop leaves behind
RECURSIVE TrainLoop(_, _, _, _, _, _)
TrainLoop(r, xs, ts, lr, k, n) ==
    IF k >= n THEN r
    ELSE LET p == Linear(xs, r.w.data, r.b.data)
             l == LossOf(p, ts)
         IN  TrainLoop([preds |-> [kind |-> "Tensor", data |-> p],
                        loss  |-> l,
                        w     |-> UpdateW(BackwardW(r.w, l, xs), lr),
                        b     |-> UpdateB(BackwardB(r.b, l), lr),
                        i     |-> k],
                       xs, ts, lr, k + 1, n)

\* device = torch.device("cuda:0" if torch.cuda.is_available() else "cpu")
\* inputs = torch.from_numpy(inputs).to(device)
\* targets = torch.from_numpy(targets).to(device)
\* for i in range(100): ...
\* An exception leaves the names assigned before it and ends the cell.
Device ==
    /\ cell = "device"
    /\ \E d \in {"cuda:0", "cpu"} :
        /\ device' = d
        /\ IF ~IsNdarray(inputs)
           THEN /\ raised' = "TypeError"
                /\ UNCHANGED <<inputs, targets, preds, loss, w, b, i>>
           ELSE IF ~IsNdarray(targets)
           THEN /\ raised' = "TypeError"
                /\ inputs' = to(from_numpy(inputs), d)
                /\ UNCHANGED <<targets, preds, loss, w, b, i>>
           ELSE IF d # "cpu"
           THEN \* inputs is on the GPU, w and b are not: the first @ raises
                /\ raised' = "RuntimeError"
                /\ inputs' = to(from_numpy(inputs), d)
                /\ targets' = to(from_numpy(targets), d)
                /\ i' = 0
                /\ UNCHANGED <<preds, loss, w, b>>
           ELSE LET r == TrainLoop([preds |-> preds, loss |-> loss, w |-> w,
                                    b |-> b, i |-> i],
                                   inputs.data, targets.data, DeviceLr, 0, DeviceEpochs)
                IN  /\ inputs' = to(from_numpy(inputs), d)
                    /\ targets' = to(from_numpy(targets), d)
                    /\ preds' = r.preds /\ loss' = r.loss
                    /\ w' = r.w /\ b' = r.b /\ i' = r.i
                    /\ UNCHANGED raised
    /\ cell' = "nn"
    /\ UNCHANGED <<x, y, model_def, linear, values, labels, outputs, epoch>>

\* model = LinearRegressionModel(input_dim, output_dim); criterion = nn.MSELoss()
\* optimizer = torch.optim.SGD(model.parameters(), lr=learning_rate)
NNSetup(ws, bs) ==
    /\ cell = "nn"
    /\ model_def' = "LinearRegressionModel"
    /\ \E wd \in ws, bd \in bs :
          linear' = [weight |-> Tensor(wd, TRUE), bias |-> Tensor(bd, TRUE)]
    /\ cell' = "nn_loop"
    /\ UNCHANGED <<raised, x, w, b, y, inputs, targets, preds, loss, i, device,
                   values, labels, outputs, epoch>>

\* t.clone().detach().requires_grad_(True): a new leaf with t's values
CloneLeaf(t) == Tensor(t.data, TRUE)

\* d loss / d values = (2 / numel) * diff @ weight, both factors first
\* rounded to GradScale
LossGradInput(diff, weight) ==
    LET dg == Tuple([r \in 1..Rows(diff) |->
                  Tuple([j \in 1..Cols(diff) |->
                      RoundDiv(diff[r][j], PredScale \div GradScale)])])
        wg == Tuple([j \in 1..Rows(weight) |->
                  Tuple([k \in 1..Cols(weight) |->
                      RoundDiv(weight[j][k], ParamScale \div GradScale)])])
        pr == MatMul(dg, wg)
        n  == Numel(diff)
    IN  Tuple([r \in 1..Rows(pr) |->
            Tuple([k \in 1..Cols(pr) |-> RoundDiv(pr[r][k], (n \div 2) * GradScale)])])

\* d loss / d labels = -(2 / numel) * diff
LossGradTarget(diff) ==
    LET den == (Numel(diff) \div 2) * (PredScale \div GradScale)
    IN  Tuple([r \in 1..Rows(diff) |->
            Tuple([j \in 1..Cols(diff) |-> RoundDiv(0 - diff[r][j], den)])])

\* optimizer.zero_grad(): the gradients of the optimizer's parameters are
\* cleared, so the backward() that follows stores rather than adds
ZeroGrad(t) == [t EXCEPT !.has_grad = FALSE, !.grad = <<>>]

\* optimizer.step() of SGD: p = p - lr * p.grad
SGDStepW(t, lr) == [t EXCEPT !.data = StepM(t.data, t.grad, lr)]
SGDStepB(t, lr) == [t EXCEPT !.data = StepV(t.data, t.grad, lr)]

\* what one pass of the body of the optimizer's loop assigns
NNPass(n) ==
    /\ cell = "nn_loop"
    /\ epoch < n
    /\ epoch' = epoch + 1
    \* values = inputs.clone()...; labels = targets.clone()...
    \* outputs = model(values); loss = criterion(outputs, labels)
    /\ outputs' = [kind |-> "Tensor",
                   data |-> Linear(CloneLeaf(inputs).data, linear.weight.data,
                                   linear.bias.data)]
    /\ loss' = LossOf(outputs'.data, CloneLeaf(targets).data)
    \* optimizer.zero_grad(); loss.backward(); optimizer.step()
    /\ values' = Accumulate(CloneLeaf(inputs),
                            LossGradInput(loss'.diff, linear.weight.data), 2)
    /\ labels' = Accumulate(CloneLeaf(targets), LossGradTarget(loss'.diff), 2)
    /\ \E tw \in {BackwardW(ZeroGrad(linear.weight), loss', values'.data)},
          tb \in {BackwardB(ZeroGrad(linear.bias), loss')} :
          linear' = [weight |-> SGDStepW(tw, learning_rate),
                     bias   |-> SGDStepB(tb, learning_rate)]
    /\ UNCHANGED <<cell, raised, x, y, preds, i, device, model_def>>

\* the pass with values = inputs.requires_grad_(True) and
\* labels = targets.requires_grad_(True): no clone(), so each pair of names
\* is one tensor
NNIter_noclone(n) ==
    /\ NNPass(n)
    /\ inputs' = values' /\ targets' = labels'
    /\ UNCHANGED <<w, b>>

\* one pass of the body of: for epoch in range(epochs)
\* values and labels are clones and the optimizer holds model.parameters():
\* nothing else of the namespace is written
NNIter(n) ==
    /\ NNPass(n)
    /\ UNCHANGED <<w, b, inputs, targets>>

\* range(epochs) is exhausted
NNDone(n) ==
    /\ cell = "nn_loop"
    /\ epoch >= n
    /\ cell' = "end"
    /\ UNCHANGED <<raised, x, w, b, y, inputs, targets, preds, loss, i, device,
                   model_def, linear, values, labels, outputs, epoch>>

\* the cells run from top to bottom, every loop to its end, from the draw
\* the notebook recorded and one other
Next ==
    \/ Create \/ Arith \/ Backward \/ Data \/ Convert
    \/ Params({RandnW[1], RandnW[2]}, {RandnB[1]})
    \/ DefModel \/ Predict \/ ComputeLoss \/ Grads
    \/ TrainIter(ManualEpochs) \/ TrainDone(ManualEpochs) \/ Final \/ Device
    \/ NNSetup({LinearW[1]}, {LinearB[1]}) \/ NNIter(epochs) \/ NNDone(epochs)

Spec == Init /\ [][Next]_vars

\* the same cells, each training loop left after MaxEpochs passes
NextCut ==
    \/ Create \/ Arith \/ Backward \/ Data \/ Convert
    \/ Params(Draws(RandnW, MaxDraws), Draws(RandnB, MaxDraws))
    \/ DefModel \/ Predict \/ ComputeLoss \/ Grads
    \/ TrainIter(Min(ManualEpochs, MaxEpochs))
    \/ TrainDone(Min(ManualEpochs, MaxEpochs)) \/ Final \/ Device
    \/ NNSetup(Draws(LinearW, MaxDraws), Draws(LinearB, MaxDraws))
    \/ NNIter(Min(epochs, MaxEpochs))
    \/ NNDone(Min(epochs, MaxEpochs))

SpecCut == Init /\ [][NextCut]_vars

(***************************************************************************)
(* The scalar cells alone, for any small whole x, w and b                  *)
(***************************************************************************)
MaxScalar == 3

InitScalar ==
    /\ cell = "arith"
    /\ raised = "none"
    /\ \E xv \in (0 - MaxScalar)..MaxScalar : x = Tensor(xv, TRUE)
    /\ \E wv \in (0 - MaxScalar)..MaxScalar : w = Tensor(wv, TRUE)
    /\ \E bv \in (0 - MaxScalar)..MaxScalar : b = Tensor(bv, FALSE)
    /\ y = None
    /\ inputs = None /\ targets = None /\ preds = None /\ loss = None
    /\ i = -1
    /\ device = "unset"
    /\ model_def = "undefined"
    /\ linear = None /\ values = None /\ labels = None /\ outputs = None
    /\ epoch = 0

NextScalar == Arith \/ Backward

SpecScalar == InitScalar /\ [][NextScalar]_vars

(***************************************************************************)
(* mse alone, on any two small tensors of one shape                        *)
(***************************************************************************)
MaxEntry == 1

\* the shapes tried: <<rows, columns>>
Shapes == {<<1, 1>>, <<1, 2>>, <<2, 1>>, <<2, 2>>}

Matrices(nr, nc) == [1..nr -> [1..nc -> (0 - MaxEntry)..MaxEntry]]

InitMse ==
    /\ cell = "loss"
    /\ raised = "none"
    /\ x = None /\ w = None /\ b = None /\ y = None
    /\ inputs = None /\ loss = None
    /\ \E sh \in Shapes :
          /\ \E m \in Matrices(sh[1], sh[2]) :
                preds = [kind |-> "Tensor", data |-> m]
          /\ \E m \in Matrices(sh[1], sh[2]) :
                targets = [kind |-> "Tensor", data |-> m, device |-> "cpu"]
    /\ i = -1
    /\ device = "unset"
    /\ model_def = "undefined"
    /\ linear = None /\ values = None /\ labels = None /\ outputs = None
    /\ epoch = 0

NextMse == ComputeLoss

SpecMse == InitMse /\ [][NextMse]_vars

(***************************************************************************)
(* Properties                                                              *)
(***************************************************************************)
\* C1: every cell of the notebook, run top to bottom, completes without
\* raising; in particular the device cell, run after the conversion cell,
\* converts, moves and trains without an exception.
C1_NoCellRaises == raised = "none"

\* the count the heading comment of the manual training cell gives
CommentEpochs == 100

\* C2: the manual training cell performs exactly 100 iterations of its loop
\* body and then terminates: no pass of the body has an index of 100 or more,
\* and the cells after it see the index of the hundredth pass.
C2_HundredIterations ==
    /\ cell = "train" => i + 1 <= CommentEpochs
    /\ cell \in {"final", "device"} => i + 1 = CommentEpochs

\* a pass of the manual loop that follows an earlier pass
ManualStep == cell = "train" /\ i >= 0 /\ i' = i + 1
\* a pass of the optimizer's loop that follows an earlier pass
OptimizerStep == cell = "nn_loop" /\ epoch >= 1 /\ epoch' = epoch + 1

\* C3: in both training loops the loss computed in a pass is never larger
\* than the loss computed in the pass before it.
C3_LossNeverIncreases ==
    [][(ManualStep \/ OptimizerStep) => Leq(loss'.data, loss.data)]_vars

C3_Witness ==
    /\ cell = "train"
    /\ i = 2
    /\ w.has_grad /\ b.has_grad

\* the whole number the limbs of a loss stand for
RECURSIVE LimbValue(_, _)
LimbValue(s, k) == IF k = 0 THEN 0 ELSE s[k] + (Base * LimbValue(s, k - 1))

\* the sum of the squares of the entries of a matrix
SquareSum(m) ==
    SumSeq(Tuple([n \in 1..Numel(m) |-> Flatten(m)[n] * Flatten(m)[n]]))

\* C4: mse(t1, t2) is the sum of the squared elementwise differences divided
\* by the number of elements (here to three further digits); it is never
\* negative, it is zero exactly when the tensors are equal, and it is the
\* same with its arguments exchanged.
C4_MseIsMeanSquare ==
    cell = "grads" =>
        LET d == Sub(preds.data, targets.data)
            v == LimbValue(loss.data, NumLimbs)
        IN  /\ v = (SquareSum(d) * Base) \div Numel(d)
            /\ v >= 0
            /\ (v = 0) <=> (preds.data = targets.data)
            /\ loss.data = mse(targets.data, preds.data)

C4_Witness ==
    /\ cell = "grads"
    /\ Numel(preds.data) = 4
    /\ preds.data # targets.data
    /\ LimbValue(loss.data, NumLimbs) % Base # 0

\* C5: after y = w * x + b and y.backward(), x.grad is w, w.grad is x, b has
\* no gradient, and x * x.grad + b = w * w.grad + b = y; for x = 1, w = 2,
\* b = 3 that is x.grad = 2, w.grad = 1, y = 5.
C5_ScalarGradients ==
    cell = "data" =>
        /\ raised = "none"
        /\ x.has_grad /\ x.grad = w.data
        /\ w.has_grad /\ w.grad = x.data
        /\ ~b.has_grad
        /\ (x.data * x.grad) + b.data = y.data
        /\ (w.data * w.grad) + b.data = y.data
        /\ (x.data = 1 /\ w.data = 2 /\ b.data = 3) =>
              (x.grad = 2 /\ w.grad = 1 /\ y.data = 5)

C5_Witness ==
    /\ cell = "data"
    /\ x.data = 1 /\ w.data = 2 /\ b.data = 3
    /\ x.grad = 2 /\ w.grad = 1 /\ y.data = 5

\* C6: model(x) is x @ w.t() + b: for the 10 x 3 inputs and the 2 x 3 weights
\* the predictions are 10 x 2, and entry [r][j] is the sum over k of
\* inputs[r][k] * w[j][k], plus b[j], for the w and b of the moment of the
\* call.
C6_ModelIsAffine ==
    cell \in {"loss", "device"} =>
        /\ Rows(inputs.data) = 10 /\ Cols(inputs.data) = 3
        /\ Rows(w.data) = 2 /\ Cols(w.data) = 3
        /\ Rows(preds.data) = 10 /\ Cols(preds.data) = 2
        /\ \A r \in 1..10, j \in 1..2 :
              preds.data[r][j] =
                  (inputs.data[r][1] * w.data[j][1])
                  + (inputs.data[r][2] * w.data[j][2])
                  + (inputs.data[r][3] * w.data[j][3])
                  + (XScale * b.data[j])

C6_Witness ==
    /\ cell = "device"
    /\ i >= 1
    /\ w.data \notin Draws(RandnW, Len(RandnW))
    /\ b.data \notin Draws(RandnB, Len(RandnB))

\* C7: the optimizer's cell never changes w, b, their gradients, inputs or
\* targets: once the class is defined, every step leaves the four as they
\* were.
C7_OptimizerCellFrame ==
    [][model_def = "LinearRegressionModel" =>
          (w' = w /\ b' = b /\ inputs' = inputs /\ targets' = targets)]_vars

C7_Witness ==
    /\ cell = "nn_loop"
    /\ epoch >= 2
    /\ linear.weight.has_grad
    /\ linear.weight.data \notin Draws(LinearW, Len(LinearW))
    /\ values.has_grad /\ labels.has_grad

====
